---- MODULE Spec2Model ----
(***************************************************************************)
(* Model of src/3-search-handbook.py: the tool-calling agent ask_agent,    *)
(* the lookup tool search_handbook, the pydantic answer schema and the     *)
(* top-level driver loop over example_queries.                             *)
(*                                                                         *)
(* The hosted completion service and the file system are the environment:  *)
(* every completion request either raises or returns one of a bounded set  *)
(* of responses, and the handbook file is in one of a few states.          *)
(***************************************************************************)
EXTENDS Integers, Sequences, FiniteSets, TLC

(***************************************************************************)
(* Bounds of the model.                                                    *)
(***************************************************************************)
\* most tool invocations in the model's first response
MaxToolCalls == 3
\* most citation records in the content of a schema-constrained completion
MaxCitations == 5

(***************************************************************************)
(* Python values as json.loads produces them: str, int, None, list, dict.  *)
(* A value is a record whose one field names its type.  A dict is its      *)
(* items in insertion order, keys unique.                                  *)
(***************************************************************************)
PyStr(s) == [str |-> s]
\* an int keeps its digits as text
PyInt(n) == [int |-> n]
PyNone == [null |-> "null"]
PyList(xs) == [list |-> xs]
PyDict(items) == [dict |-> items]
TypeOf(v) == CHOOSE t \in DOMAIN v : TRUE

DictKeys(d) == {d.dict[k][1] : k \in 1..Len(d.dict)}
DictGet(d, key) == LET k == CHOOSE k \in 1..Len(d.dict) : d.dict[k][1] = key
                   IN d.dict[k][2]
\* d[key] = v on the item list: an existing key keeps its place
ItemsSet(items, key, v) ==
    IF \E k \in 1..Len(items) : items[k][1] = key
    THEN [k \in 1..Len(items) |->
            IF items[k][1] = key THEN <<key, v>> ELSE items[k]]
    ELSE Append(items, <<key, v>>)

(***************************************************************************)
(* JSON text, as a sequence of lexical tokens <<kind, text>>: punctuation  *)
(* "p", string literal "s", number "n", the literal null "l".              *)
(***************************************************************************)
LBrace == <<"p", "{">>
RBrace == <<"p", "}">>
LBrack == <<"p", "[">>
RBrack == <<"p", "]">>
Colon == <<"p", ":">>
Comma == <<"p", ",">>
StrTok(s) == <<"s", s>>
NumTok(n) == <<"n", n>>
NullTok == <<"l", "null">>

ParseFail == [ok |-> FALSE, val |-> PyNone, pos |-> 0]
ParseOk(v, p) == [ok |-> TRUE, val |-> v, pos |-> p]

RECURSIVE ParseValue(_, _)
RECURSIVE ParseElems(_, _, _)
RECURSIVE ParseMembers(_, _, _)

\* one JSON value starting at token p; pos is the first token after it
ParseValue(toks, p) ==
    IF p > Len(toks) THEN ParseFail
    ELSE LET t == toks[p] IN
         CASE t[1] = "s" -> ParseOk(PyStr(t[2]), p + 1)
           [] t[1] = "n" -> ParseOk(PyInt(t[2]), p + 1)
           [] t[1] = "l" -> ParseOk(PyNone, p + 1)
           [] t = LBrack ->
                IF p + 1 <= Len(toks) /\ toks[p + 1] = RBrack
                THEN ParseOk(PyList(<<>>), p + 2)
                ELSE ParseElems(toks, p + 1, <<>>)
           [] t = LBrace ->
                IF p + 1 <= Len(toks) /\ toks[p + 1] = RBrace
                THEN ParseOk(PyDict(<<>>), p + 2)
                ELSE ParseMembers(toks, p + 1, <<>>)
           [] OTHER -> ParseFail

\* the elements of an array, p at the start of an element
ParseElems(toks, p, acc) ==
    LET r == ParseValue(toks, p) IN
    IF ~r.ok \/ r.pos > Len(toks) THEN ParseFail
    ELSE IF toks[r.pos] = Comma
         THEN ParseElems(toks, r.pos + 1, Append(acc, r.val))
         ELSE IF toks[r.pos] = RBrack
              THEN ParseOk(PyList(Append(acc, r.val)), r.pos + 1)
              ELSE ParseFail

\* the members of an object, p at a key
ParseMembers(toks, p, acc) ==
    IF p + 1 > Len(toks) \/ toks[p][1] # "s" \/ toks[p + 1] # Colon
    THEN ParseFail
    ELSE LET r == ParseValue(toks, p + 2) IN
         IF ~r.ok \/ r.pos > Len(toks) THEN ParseFail
         ELSE IF toks[r.pos] = Comma
              THEN ParseMembers(toks, r.pos + 1, ItemsSet(acc, toks[p][2], r.val))
              ELSE IF toks[r.pos] = RBrace
                   THEN ParseOk(PyDict(ItemsSet(acc, toks[p][2], r.val)), r.pos + 1)
                   ELSE ParseFail

\* A message's content (or a tool call's arguments) is None or a text.
NoContent == [none |-> TRUE, text |-> <<>>]
Text(toks) == [none |-> FALSE, text |-> toks]

\* json.loads(s): TypeError on None, JSONDecodeError unless the whole text
\* is one JSON value
json_loads(s) ==
    IF s.none THEN [ok |-> FALSE, error |-> "TypeError", val |-> PyNone]
    ELSE LET r == ParseValue(s.text, 1) IN
         IF r.ok /\ r.pos = Len(s.text) + 1
         THEN [ok |-> TRUE, error |-> "", val |-> r.val]
         ELSE [ok |-> FALSE, error |-> "JSONDecodeError", val |-> PyNone]

RECURSIVE Dumps(_)
RECURSIVE DumpsAll(_, _)
\* the JSON text of a value (how the service writes the texts it returns)
Dumps(v) ==
    CASE TypeOf(v) = "str" -> <<StrTok(v.str)>>
      [] TypeOf(v) = "int" -> <<NumTok(v.int)>>
      [] TypeOf(v) = "null" -> <<NullTok>>
      [] TypeOf(v) = "list" -> <<LBrack>> \o DumpsAll(v.list, FALSE) \o <<RBrack>>
      [] TypeOf(v) = "dict" -> <<LBrace>> \o DumpsAll(v.dict, TRUE) \o <<RBrace>>
DumpsAll(xs, keyed) ==
    IF xs = <<>> THEN <<>>
    ELSE LET x == Head(xs)
             one == IF keyed THEN <<StrTok(x[1]), Colon>> \o Dumps(x[2])
                    ELSE Dumps(x)
         IN IF Len(xs) = 1 THEN one
            ELSE one \o <<Comma>> \o DumpsAll(Tail(xs), keyed)

(***************************************************************************)
(* The output models (pydantic): Citation and HandbookAnswer.  A validated *)
(* model holds exactly the declared fields; keys the schema does not       *)
(* declare are ignored, a missing key or a value of another type is a      *)
(* ValidationError.  The schema states no length or emptiness constraint.  *)
(***************************************************************************)
HasStr(d, key) == key \in DictKeys(d) /\ TypeOf(DictGet(d, key)) = "str"

\* Citation: text: str, section: str
CitationValid(v) ==
    TypeOf(v) = "dict" /\ HasStr(v, "text") /\ HasStr(v, "section")
Citation(v) ==
    [text |-> DictGet(v, "text").str, section |-> DictGet(v, "section").str]

\* HandbookAnswer: answer: str, citations: List[Citation]
HandbookAnswerValid(v) ==
    /\ TypeOf(v) = "dict"
    /\ HasStr(v, "answer")
    /\ "citations" \in DictKeys(v)
    /\ TypeOf(DictGet(v, "citations")) = "list"
    /\ \A k \in 1..Len(DictGet(v, "citations").list) :
          CitationValid(DictGet(v, "citations").list[k])
HandbookAnswer(v) ==
    [answer |-> DictGet(v, "answer").str,
     citations |-> [k \in 1..Len(DictGet(v, "citations").list) |->
                      Citation(DictGet(v, "citations").list[k])]]

\* variant: data that does not validate yields a model with default fields
model_validate_lenient(parsed_data) ==
    IF HandbookAnswerValid(parsed_data)
    THEN [ok |-> TRUE, error |-> "", model |-> <<HandbookAnswer(parsed_data)>>]
    ELSE [ok |-> TRUE, error |-> "",
          model |-> <<[answer |-> "", citations |-> <<>>]>>]
\* HandbookAnswer.model_validate(parsed_data): the model, or ValidationError
model_validate(parsed_data) ==
    IF HandbookAnswerValid(parsed_data)
    THEN [ok |-> TRUE, error |-> "", model |-> <<HandbookAnswer(parsed_data)>>]
    ELSE [ok |-> FALSE, error |-> "ValidationError", model |-> <<>>]

(***************************************************************************)
(* The environment: the handbook file and what the service may answer.     *)
(***************************************************************************)
NOT_FOUND == "ERROR: Handbook file not found at expected path."
COULD_NOT_READ == "ERROR: Could not read handbook file: [Errno 13]"
ErrorTexts == {NOT_FOUND, COULD_NOT_READ}

\* HANDBOOK_PATH on disk: absent, present but unreadable, or readable
HandbookStates ==
    {[exists |-> FALSE, readable |-> FALSE, text |-> ""],
     [exists |-> TRUE, readable |-> FALSE, text |-> ""],
     [exists |-> TRUE, readable |-> TRUE, text |-> ""],
     [exists |-> TRUE, readable |-> TRUE, text |-> "# AI handbook 2.1 ..."]}

example_queries ==
    <<"What can you do?",
      "What are the requirements for registering an AI system in the Algorithm Register?",
      "Do I need to perform an IAMA for a chatbot that answers citizen questions?">>

\* names the model may ask for; only the first is offered in tools
ToolNames == {"search_handbook", "web_search"}
QueryArguments == PyDict(<< <<"query", PyStr("q")>> >>)
\* arguments texts: the declared parameter, no parameter, a JSON array,
\* a text cut short
ArgumentTexts ==
    {Text(Dumps(QueryArguments)), Text(Dumps(PyDict(<<>>))),
     Text(Dumps(PyList(<<>>))), Text(<<LBrace, StrTok("query")>>)}
\* the service gives every invocation of a response its own id
ToolCallLists ==
    UNION {{[k \in 1..n |->
               [id |-> <<"call", k>>,
                function |-> [name |-> f[k][1], arguments |-> f[k][2]]]] :
            f \in [1..n -> ToolNames \X ArgumentTexts]} : n \in 0..MaxToolCalls}

Cit(text, section) ==
    PyDict(<< <<"text", PyStr(text)>>, <<"section", PyStr(section)>> >>)
GoodCitation == Cit("excerpt", "2.1")
\* citation records the schema accepts besides GoodCitation: an empty
\* excerpt, an empty section, a key the schema does not declare
OddCitations ==
    {Cit("", "2.1"), Cit("excerpt", ""),
     PyDict(<< <<"text", PyStr("excerpt")>>, <<"section", PyStr("2.1")>>,
               <<"page", PyInt("7")>> >>)}
\* citation records the schema rejects: no section, a number for the
\* section, a string in place of the record
BadCitations ==
    {PyDict(<< <<"text", PyStr("excerpt")>> >>),
     PyDict(<< <<"text", PyStr("excerpt")>>, <<"section", PyInt("2")>> >>),
     PyStr("2.1")}
CitationLists ==
    {[k \in 1..n |-> GoodCitation] : n \in 0..MaxCitations}
    \cup {Append([k \in 1..(n - 1) |-> GoodCitation], c) :
            n \in 1..MaxCitations, c \in OddCitations \cup BadCitations}
Answer(cs) == PyDict(<< <<"answer", PyStr("a")>>, <<"citations", PyList(cs)>> >>)
ExtraKeyAnswer ==
    PyDict(<< <<"answer", PyStr("a")>>, <<"citations", PyList(<<>>)>>,
              <<"confidence", PyInt("1")>> >>)
RepeatedKeyText ==
    Text(<<LBrace, StrTok("answer"), Colon, StrTok("a"), Comma,
           StrTok("answer"), Colon, StrTok("b"), Comma,
           StrTok("citations"), Colon, LBrack, RBrack, RBrace>>)
AnswerValues ==
    {Answer(cs) : cs \in CitationLists}
    \cup {ExtraKeyAnswer,
          PyDict(<< <<"citations", PyList(<<>>)>> >>),
          PyDict(<< <<"answer", PyStr("a")>> >>),
          PyDict(<< <<"answer", PyStr("a")>>, <<"citations", PyNone>> >>),
          PyDict(<< <<"answer", PyInt("1")>>, <<"citations", PyList(<<>>)>> >>),
          PyList(<<Answer(<<>>)>>),
          PyStr("a")}
\* the content of a schema-constrained completion: absent, the JSON text
\* of a value, an empty text, a text cut short, a text with a repeated
\* key, a text with something after the value
ContentTexts ==
    {Text(Dumps(v)) : v \in AnswerValues}
    \cup {NoContent, Text(<<>>),
          Text(SubSeq(Dumps(Answer(<<GoodCitation>>)), 1, 12)),
          RepeatedKeyText,
          Text(Dumps(Answer(<<>>)) \o <<RBrace>>)}

(***************************************************************************)
(* State.  handbook and AVAILABLE_FUNCTIONS are module-level; qi, outcomes *)
(* and pc belong to the driver; the rest is the frame of the running       *)
(* ask_agent call (requests, execs and failures record what the call did). *)
(***************************************************************************)
VARIABLES
    handbook,             \* the state of the file at HANDBOOK_PATH
    AVAILABLE_FUNCTIONS,  \* the keys of the name -> function mapping
    qi,                   \* index of the driver's current query
    outcomes,             \* what the driver printed for each finished query
    pc,                   \* where the program is
    messages,             \* the conversation of the running call
    tool_calls,           \* response_message.tool_calls
    i,                    \* index of the for loop over tool_calls
    json_string,          \* content of the schema-constrained completion
    result,               \* <<the HandbookAnswer returned>>, or <<>>
    error,                \* the exception that ended the call, or ""
    requests,             \* completion requests the call issued, in order
    execs,                \* tool functions the call executed
    failures              \* exceptions raised inside the call

vars == <<handbook, AVAILABLE_FUNCTIONS, qi, outcomes, pc, messages,
          tool_calls, i, json_string, result, error, requests, execs,
          failures>>
frame == <<messages, tool_calls, i, json_string, result, error, requests,
           execs, failures>>
globals == <<handbook, AVAILABLE_FUNCTIONS>>
driver == <<qi, outcomes>>

NumQueries == Len(example_queries)

\* search_handbook(query): the whole handbook, or an error text; the query
\* is not used
search_handbook(query) ==
    IF ~handbook.exists THEN NOT_FOUND
    ELSE IF handbook.readable THEN handbook.text
         ELSE COULD_NOT_READ

UserMessage(query) == [role |-> "user", content |-> query]
\* response_message of the first completion, as appended to the conversation
AssistantMessage(tcs) == [role |-> "assistant", tool_calls |-> tcs]
\* variant: every tool message is tagged with the first invocation
ToolMessage_firstCall(tool_call, function_response_text) ==
    [tool_call_id |-> tool_calls[1].id,
     role |-> "tool",
     name |-> tool_calls[1].function.name,
     content |-> function_response_text]
ToolMessage(tool_call, function_response_text) ==
    [tool_call_id |-> tool_call.id,
     role |-> "tool",
     name |-> tool_call.function.name,
     content |-> function_response_text]

\* function_to_call(**function_args) binds iff function_args is a mapping
\* with exactly the parameter query
BindsArguments(function_args) ==
    TypeOf(function_args) = "dict" /\ DictKeys(function_args) = {"query"}

Stay == [raised |-> FALSE, error |-> "", executed |-> FALSE, appended |-> <<>>]

\* variant: an error text of the tool is raised as an exception
CallRegistered_raiseOnErrorText(tool_call, function_args) ==
    IF ~BindsArguments(function_args)
    THEN [Stay EXCEPT !.raised = TRUE, !.error = "TypeError"]
    ELSE LET text == search_handbook(DictGet(function_args, "query")) IN
         IF text \in ErrorTexts
         THEN [Stay EXCEPT !.executed = TRUE, !.raised = TRUE,
                           !.error = "ToolExecutionError"]
         ELSE [Stay EXCEPT !.executed = TRUE,
                           !.appended = <<ToolMessage(tool_call, text)>>]
\* variant: an empty tool text is not appended
CallRegistered_dropEmptyText(tool_call, function_args) ==
    IF ~BindsArguments(function_args)
    THEN [Stay EXCEPT !.raised = TRUE, !.error = "TypeError"]
    ELSE LET text == search_handbook(DictGet(function_args, "query")) IN
         [Stay EXCEPT !.executed = TRUE,
                      !.appended = IF text = "" THEN <<>>
                                   ELSE <<ToolMessage(tool_call, text)>>]
\* the registered function is called with the arguments as keywords and
\* its text is appended as a tool message
CallRegistered(tool_call, function_args) ==
    IF ~BindsArguments(function_args)
    THEN [Stay EXCEPT !.raised = TRUE, !.error = "TypeError"]
    ELSE [Stay EXCEPT
            !.executed = TRUE,
            !.appended = <<ToolMessage(tool_call,
                search_handbook(DictGet(function_args, "query")))>>]

\* variant: an unknown name is skipped
UnknownFunction_skip(function_name) == Stay
\* raise ValueError(f"Unknown function: {function_name}")
UnknownFunction(function_name) ==
    [Stay EXCEPT !.raised = TRUE, !.error = "ValueError"]

\* one iteration of the for loop over tool_calls: what it raises, whether
\* the tool function ran, what it appends to messages
Dispatch(tool_call) ==
    LET function_name == tool_call.function.name
        loaded == json_loads(tool_call.function.arguments)
    IN IF ~loaded.ok
       THEN [Stay EXCEPT !.raised = TRUE, !.error = loaded.error]
       ELSE IF function_name \in AVAILABLE_FUNCTIONS
            THEN CallRegistered(tool_call, loaded.val)
            ELSE UnknownFunction(function_name)

\* variant: only the first invocation is processed
LoopDone_afterFirst(k, tcs) == TRUE
\* the for loop ends after the last element of tool_calls
LoopDone(k, tcs) == k >= Len(tcs)

\* client.chat.completions.create(...): the conversation as sent
Request(call, msgs) == [call |-> call, messages |-> msgs]

\* variant: the failed step is tried again
Raise_retry(e) ==
    /\ pc' = pc
    /\ error' = e
    /\ failures' = failures + 1
\* an exception leaves ask_agent: nothing in it catches
Raise(e) ==
    /\ pc' = "raised"
    /\ error' = e
    /\ failures' = failures + 1

NoFrame ==
    /\ messages' = <<>>
    /\ tool_calls' = <<>>
    /\ i' = 0
    /\ json_string' = NoContent
    /\ result' = <<>>
    /\ error' = ""
    /\ requests' = <<>>
    /\ execs' = 0
    /\ failures' = 0

Init ==
    /\ handbook \in HandbookStates
    /\ AVAILABLE_FUNCTIONS = {"search_handbook"}
    /\ qi = 1
    /\ outcomes = <<>>
    /\ pc = "driver"
    /\ messages = <<>>
    /\ tool_calls = <<>>
    /\ i = 0
    /\ json_string = NoContent
    /\ result = <<>>
    /\ error = ""
    /\ requests = <<>>
    /\ execs = 0
    /\ failures = 0

\* for query in example_queries: ... ask_agent(query), up to line 105
CallAskAgent ==
    /\ pc = "driver"
    /\ qi <= NumQueries
    /\ messages' = <<UserMessage(example_queries[qi])>>
    /\ tool_calls' = <<>>
    /\ i' = 0
    /\ json_string' = NoContent
    /\ result' = <<>>
    /\ error' = ""
    /\ requests' = <<>>
    /\ execs' = 0
    /\ failures' = 0
    /\ pc' = "initial_request"
    /\ UNCHANGED <<globals, driver>>

\* the first completion, with the tools offered and tool_choice auto; the
\* request may raise (the client rejects it, the service fails)
InitialCompletion ==
    /\ pc = "initial_request"
    /\ requests' = Append(requests, Request("initial", messages))
    /\ \/ /\ Raise("APIError")
          /\ UNCHANGED tool_calls
       \/ /\ \E tcs \in ToolCallLists : tool_calls' = tcs
          /\ pc' = "branch"
          /\ UNCHANGED <<error, failures>>
    /\ UNCHANGED <<globals, driver, messages, i, json_string, result, execs>>

\* if response_message.tool_calls: ... messages.append(response_message)
BranchOnToolCalls ==
    /\ pc = "branch"
    /\ IF tool_calls # <<>>
       THEN /\ messages' = Append(messages, AssistantMessage(tool_calls))
            /\ i' = 1
            /\ pc' = "loop"
       ELSE /\ pc' = "direct_request"
            /\ UNCHANGED <<messages, i>>
    /\ UNCHANGED <<globals, driver, tool_calls, json_string, result, error,
                   requests, execs, failures>>

\* one iteration of for tool_call in response_message.tool_calls
ProcessToolCall ==
    /\ pc = "loop"
    /\ LET d == Dispatch(tool_calls[i]) IN
       /\ execs' = execs + (IF d.executed THEN 1 ELSE 0)
       /\ IF d.raised
          THEN /\ Raise(d.error)
               /\ UNCHANGED <<messages, i>>
          ELSE /\ messages' = messages \o d.appended
               /\ i' = i + 1
               /\ pc' = IF LoopDone(i, tool_calls) THEN "final_request" ELSE "loop"
               /\ UNCHANGED <<error, failures>>
    /\ UNCHANGED <<globals, driver, tool_calls, json_string, result, requests>>

\* a completion constrained to HANDBOOK_ANSWER_SCHEMA
SchemaCompletion(call, next) ==
    /\ requests' = Append(requests, Request(call, messages))
    /\ \/ /\ Raise("APIError")
          /\ UNCHANGED json_string
       \/ /\ \E c \in ContentTexts : json_string' = c
          /\ pc' = next
          /\ UNCHANGED <<error, failures>>
    /\ UNCHANGED <<globals, driver, messages, tool_calls, i, result, execs>>

\* json.loads(json_string); return HandbookAnswer.model_validate(parsed_data)
ParseAndValidate ==
    /\ LET loaded == json_loads(json_string) IN
       IF ~loaded.ok
       THEN Raise(loaded.error) /\ UNCHANGED result
       ELSE LET validated == model_validate(loaded.val) IN
            IF ~validated.ok
            THEN Raise(validated.error) /\ UNCHANGED result
            ELSE /\ result' = validated.model
                 /\ pc' = "returned"
                 /\ UNCHANGED <<error, failures>>
    /\ UNCHANGED <<globals, driver, messages, tool_calls, i, json_string,
                   requests, execs>>

FinalCompletion == pc = "final_request" /\ SchemaCompletion("final", "final_parse")
FinalParse == pc = "final_parse" /\ ParseAndValidate
DirectCompletion == pc = "direct_request" /\ SchemaCompletion("direct", "direct_parse")
DirectParse == pc = "direct_parse" /\ ParseAndValidate

\* the driver goes on to the next query, or ends after the last
NextQuery(status) ==
    /\ outcomes' = Append(outcomes, [query |-> example_queries[qi], status |-> status])
    /\ qi' = qi + 1
    /\ pc' = IF qi = NumQueries THEN "done" ELSE "driver"
    /\ NoFrame
    /\ UNCHANGED globals

\* result = ask_agent(query) returned: the answer and citations are printed
DriverReport == pc = "returned" /\ NextQuery("answer")

\* variant: an error ends the driver
DriverCatch_stop ==
    /\ pc = "raised"
    /\ outcomes' = Append(outcomes, [query |-> example_queries[qi], status |-> "error"])
    /\ pc' = "done"
    /\ NoFrame
    /\ UNCHANGED <<globals, qi>>
\* except Exception as e: the error is printed
DriverCatch == pc = "raised" /\ NextQuery("error")

Next ==
    \/ CallAskAgent
    \/ InitialCompletion
    \/ BranchOnToolCalls
    \/ ProcessToolCall
    \/ FinalCompletion
    \/ FinalParse
    \/ DirectCompletion
    \/ DirectParse
    \/ DriverReport
    \/ DriverCatch

Spec == Init /\ [][Next]_vars

(***************************************************************************)
(* Properties.                                                             *)
(***************************************************************************)
ToolMessages(msgs) == SelectSeq(msgs, LAMBDA m : m.role = "tool")
Issued(call) == \E r \in 1..Len(requests) : requests[r].call = call
ToolBranch == tool_calls # <<>>
Registered(tool_call) == tool_call.function.name \in AVAILABLE_FUNCTIONS
\* an invocation of the lookup tool with the declared parameter
ProperLookup(tool_call) ==
    /\ tool_call.function.name = "search_handbook"
    /\ tool_call.function.arguments = Text(Dumps(QueryArguments))

\* C1: in the no-tool branch the returned HandbookAnswer has an empty
\* citations list, whatever schema-valid content the second completion
\* returned.
C1_DirectAnswerHasNoCitations ==
    (pc = "returned" /\ ~ToolBranch) => result[1].citations = <<>>

\* C2: the conversation sent in the final completion request holds exactly
\* one tool-role message per tool invocation of the first response: the
\* counts agree and every invocation id is on exactly one tool message.
C2_OneToolMessagePerInvocation ==
    \A r \in 1..Len(requests) :
        requests[r].call = "final" =>
            LET tm == ToolMessages(requests[r].messages) IN
            /\ Len(tm) = Len(tool_calls)
            /\ \A k \in 1..Len(tool_calls) :
                  Cardinality({j \in 1..Len(tm) :
                                 tm[j].tool_call_id = tool_calls[k].id}) = 1
C2_Witness == Issued("final") /\ Len(tool_calls) >= 2

\* C3: when any invocation of the first response names a function that is
\* not a key of AVAILABLE_FUNCTIONS, no schema-constrained completion is
\* requested and no HandbookAnswer is returned: the call is still before
\* or in the loop, or it has raised; wherever the invocation stands.
C3_UnregisteredNeverReachesFinal ==
    (\E k \in 1..Len(tool_calls) : ~Registered(tool_calls[k])) =>
        /\ ~Issued("final") /\ ~Issued("direct")
        /\ result = <<>>
        /\ pc \in {"branch", "loop", "raised"}
C3_Witness ==
    /\ pc = "raised" /\ error = "ValueError"
    /\ Len(tool_calls) >= 2 /\ i = Len(tool_calls)
    /\ \A k \in 1..(i - 1) : Registered(tool_calls[k])

\* what the service's conforming texts must validate to
GoodModel == [text |-> "excerpt", section |-> "2.1"]
OddCitationCases ==
    {<<Cit("", "2.1"), [text |-> "", section |-> "2.1"]>>,
     <<Cit("excerpt", ""), [text |-> "excerpt", section |-> ""]>>,
     <<PyDict(<< <<"text", PyStr("excerpt")>>, <<"section", PyStr("2.1")>>,
                 <<"page", PyInt("7")>> >>), GoodModel>>}
ExpectedAnswers ==
    {<<Text(Dumps(Answer([k \in 1..n |-> GoodCitation]))),
       [answer |-> "a", citations |-> [k \in 1..n |-> GoodModel]]>> :
        n \in 0..MaxCitations}
    \cup {<<Text(Dumps(Answer(Append([k \in 1..(n - 1) |-> GoodCitation], c[1])))),
            [answer |-> "a",
             citations |-> Append([k \in 1..(n - 1) |-> GoodModel], c[2])]>> :
            n \in 1..MaxCitations, c \in OddCitationCases}
    \cup {<<Text(Dumps(ExtraKeyAnswer)), [answer |-> "a", citations |-> <<>>]>>,
          <<RepeatedKeyText, [answer |-> "b", citations |-> <<>>]>>}

\* C4: in both branches a HandbookAnswer is returned only when the content
\* of the schema-constrained completion parsed as JSON and validated, and
\* then it is the complete model of that content; a content that fails
\* either step ends the call raised with nothing returned.
C4_ReturnsOnlyValidatedContent ==
    /\ result # <<>> => pc = "returned"
    /\ pc = "returned" =>
          /\ Len(result) = 1
          /\ <<json_string, result[1]>> \in ExpectedAnswers
    /\ (pc = "raised" /\ Len(requests) = 2
          /\ error \in {"TypeError", "JSONDecodeError", "ValidationError"}) =>
          \A x \in ExpectedAnswers : x[1] # json_string
C4_Witness ==
    /\ pc = "raised" /\ error = "ValidationError" /\ ~ToolBranch
    /\ result = <<>>

\* C5: when search_handbook returns an error text the lookup raises
\* nothing: every tool message carries that text unchanged, a call raised
\* in the loop raised on an invocation that is not a proper lookup, and a
\* call whose invocations are all proper lookups goes on to the final
\* completion request.
C5_LookupErrorTextIsPassedOn ==
    search_handbook("q") \in ErrorTexts =>
        /\ \A k \in 1..Len(messages) :
              messages[k].role = "tool" =>
                  messages[k].content = search_handbook("q")
        /\ (pc = "raised" /\ ToolBranch /\ Len(requests) = 1) =>
              ~ProperLookup(tool_calls[i])
        /\ (ToolBranch /\ pc \notin {"branch", "loop"}
              /\ \A k \in 1..Len(tool_calls) : ProperLookup(tool_calls[k])) =>
              (pc = "final_request" \/ Issued("final"))
C5_Witness ==
    /\ Issued("final")
    /\ \E k \in 1..Len(messages) :
          messages[k].role = "tool" /\ messages[k].content = NOT_FOUND

\* C6: in the tool branch, when the lookup returned non-empty document
\* text, the returned HandbookAnswer has between 2 and 4 citations, each
\* with a non-empty text and a non-empty section.
C6_ToolAnswerHasTwoToFourCitations ==
    (pc = "returned" /\ ToolBranch
       /\ search_handbook("q") \notin ErrorTexts \cup {""}) =>
        /\ Len(result[1].citations) \in 2..4
        /\ \A k \in 1..Len(result[1].citations) :
              /\ result[1].citations[k].text # ""
              /\ result[1].citations[k].section # ""

\* C7: nothing is retried: a call raises at most once and is then over, it
\* issues at most two completion requests, the first offering the tools and
\* the second the schema-constrained one of its branch, never both
\* branches; a call that returned issued exactly two.
C7_NoRetryAtMostTwoRequests ==
    /\ failures <= 1
    /\ failures = 1 <=> pc = "raised"
    /\ pc = "raised" => result = <<>>
    /\ Len(requests) <= 2
    /\ \A r \in 1..Len(requests) :
          requests[r].call = IF r = 1 THEN "initial"
                             ELSE IF ToolBranch THEN "final" ELSE "direct"
    /\ ~(Issued("final") /\ Issued("direct"))
    /\ pc = "returned" => Len(requests) = 2
C7_Witness ==
    /\ pc = "raised" /\ error = "APIError" /\ Len(requests) = 2
    /\ ToolBranch

\* C8: the conversation sent in the final completion request is the user
\* query, then the assistant's tool-invocation message, then one tool
\* message per invocation in the order of the invocations, each with the
\* id and the name of its invocation.
C8_FinalConversationOrder ==
    \A r \in 1..Len(requests) :
        requests[r].call = "final" =>
            LET msgs == requests[r].messages IN
            /\ Len(msgs) = 2 + Len(tool_calls)
            /\ msgs[1] = [role |-> "user", content |-> example_queries[qi]]
            /\ msgs[2].role = "assistant"
            /\ msgs[2].tool_calls = tool_calls
            /\ \A k \in 1..Len(tool_calls) :
                  /\ msgs[2 + k].role = "tool"
                  /\ msgs[2 + k].tool_call_id = tool_calls[k].id
                  /\ msgs[2 + k].name = tool_calls[k].function.name
C8_Witness ==
    /\ pc = "returned" /\ Issued("final") /\ Len(tool_calls) = 2
    /\ Len(requests[2].messages) = 4

\* C9: a tool function runs only in the tool branch, once per invocation
\* reached: the executions of a call are as many as the tool messages of
\* its conversation and as the invocations passed, none in the no-tool
\* branch; an unregistered name after registered invocations aborts the
\* call with the earlier tools executed.
C9_ExecutionsMatchToolMessages ==
    /\ execs = Len(ToolMessages(messages))
    /\ ~ToolBranch => execs = 0
    /\ i >= 1 => execs = i - 1
    /\ execs <= Cardinality({k \in 1..Len(tool_calls) : Registered(tool_calls[k])})
C9_Witness ==
    /\ pc = "raised" /\ error = "ValueError"
    /\ execs = 1 /\ Len(ToolMessages(messages)) = 1

\* C10: the driver takes the queries once each in list order; a call that
\* raised is reported and the driver goes on; every call starts from a
\* fresh conversation and frame, and AVAILABLE_FUNCTIONS never changes.
C10_DriverTakesEveryQueryOnce ==
    /\ AVAILABLE_FUNCTIONS = {"search_handbook"}
    /\ qi \in 1..(NumQueries + 1)
    /\ Len(outcomes) = qi - 1
    /\ \A k \in 1..Len(outcomes) : outcomes[k].query = example_queries[k]
    /\ pc = "done" <=> qi = NumQueries + 1
    /\ pc = "initial_request" =>
          /\ messages = <<[role |-> "user", content |-> example_queries[qi]]>>
          /\ tool_calls = <<>> /\ i = 0 /\ json_string = NoContent
          /\ result = <<>> /\ error = "" /\ requests = <<>>
          /\ execs = 0 /\ failures = 0
C10_Witness ==
    /\ pc = "done"
    /\ outcomes[1].status = "error"
    /\ outcomes[2].status = "answer"
    /\ outcomes[3].status = "error"

====
